---- MODULE Spec2Model ----
(***************************************************************************)
(* Business Ops Dashboard API (src/main.py, src/schemas.py) as a state     *)
(* machine.  The five collections of the document store are sequences of   *)
(* documents; a document's _id is its position in its collection (nothing  *)
(* is ever deleted).  Monetary amounts are integers, calendar dates are    *)
(* proleptic ordinals (date.toordinal()), None for a date is NoDate.       *)
(*                                                                         *)
(* Identifiers cross the API as strings.  bson.ObjectId(s) accepts any 24  *)
(* hexadecimal digits in either letter case and str(ObjectId) prints them  *)
(* in lower case, so an id string is modelled as a spelling (lower / upper *)
(* / malformed) of a number, and the store's string filters                *)
(* ({"po_id": po_id}, {"invoice_id": payload.invoice_id}) compare          *)
(* spellings, not numbers.                                                 *)
(***************************************************************************)
EXTENDS Integers, Sequences, FiniteSets, TLC

VARIABLES
    customer,    \* db["customer"]
    po,          \* db["po"]
    invoice,     \* db["invoice"]
    payment,     \* db["payment"]
    agreement,   \* db["agreement"]
    tasks,       \* background tasks scheduled and not yet run
    outbox,      \* e-mails handed to send_email_stub, oldest first
    today,       \* date.today(), an ordinal
    req,         \* per request thread: the create_payment call in flight
    response,    \* the response of the last request that completed
    files        \* the number of files save_upload has written to uploads/

vars == <<customer, po, invoice, payment, agreement, tasks, outbox, today, req,
          response, files>>
db == <<customer, po, invoice, payment, agreement>>

----------------------------------------------------------------------------
(* Bounds of the model *)

MaxCustomers == 1
MaxPos == 1
MaxInvoices == 2
MaxPayments == 2
MaxAmount == 2
MaxAgreements == 2
MaxChecks == 3
MaxDays == 2
MaxUploads == 1
ApiDocs == 1

Workers == {1, 2}

----------------------------------------------------------------------------
(* Identifiers: bson.ObjectId and its string forms *)

InvalidId == 0

IdStr(c, n) == [case |-> c, hex |-> n]
Malformed == IdStr("malformed", 0)

\* ObjectId(s): raises InvalidId (modelled as the value InvalidId) unless s is
\* 24 hex digits; the letter case of the digits does not matter.
ObjectId(s) == IF s.case \in {"lower", "upper"} THEN s.hex ELSE InvalidId

\* str(oid): the lower-case hex digits.
Str(oid) == IdStr("lower", oid)

\* db[col].find_one({"_id": oid}) finds a document
Exists(col, oid) == oid \in 1 .. Len(col)

\* The try / except around each reference lookup: ObjectId() raising, and the
\* HTTPException(404) raised inside the try for a missing document, are both
\* caught by "except Exception" and re-raised as 400.
RefError(col, s) ==
    IF ObjectId(s) = InvalidId THEN 400
    ELSE IF ~Exists(col, ObjectId(s)) THEN 400
    ELSE 0

\* What a client may send as a reference into col: each spelling in cases of
\* each existing id and of one id that does not exist, and a malformed string.
RefStrings(col, cases) ==
    {IdStr(c, n) : c \in cases, n \in 1 .. Len(col) + 1} \cup {Malformed}

----------------------------------------------------------------------------
(* Documents *)

\* A document is a record of the fields the handlers read, plus urls: the
\* names of the fields whose value upload_document has replaced by an upload
\* URL (a string).
IsUrl(d, f) == f \in d.urls

RECURSIVE SumAmount(_)
SumAmount(docs) ==
    IF docs = <<>> THEN 0 ELSE Head(docs).amount + SumAmount(Tail(docs))

Max(a, b) == IF a >= b THEN a ELSE b

\* list(cursor.sort("created_at", -1)): newest first
Newest(docs) == [i \in 1 .. Len(docs) |-> docs[Len(docs) + 1 - i]]

Indexes(col) == 1 .. Len(col)

----------------------------------------------------------------------------
(* Derived state: invoices *)

\* create_invoice, "normalize payment status by current amounts"
NormalizedStatus(amt, rec) ==
    IF rec <= 0 THEN "Pending"
    ELSE IF rec < amt THEN "Partial"
    ELSE "Paid"

\* list_invoices, the status recomputed for each document read
RecomputedStatus(amt, rec) ==
    IF rec <= 0 THEN "Pending"
    ELSE IF rec < amt THEN "Partial"
    ELSE "Paid"

\* list_invoices: balance_amount
BalanceAmount(amt, rec) == Max(0, amt - rec)

\* create_payment: status = "Paid" if total_received >= amt else
\*                          ("Partial" if total_received > 0 else "Pending")
PaymentStatus(total_received, amt) ==
    IF total_received >= amt THEN "Paid"
    ELSE IF total_received > 0 THEN "Partial"
    ELSE "Pending"

\* create_payment: db["payment"].find({"invoice_id": payload.invoice_id}),
\* a filter on the string the client sent
PaymentsFound(invoice_id) ==
    SelectSeq(payment, LAMBDA p : p.invoice_id = invoice_id)

\* A variant that adds the payments to the amount already stored on the invoice
\* instead of summing from scratch.
TotalReceived_OnTop(invoice_id) ==
    invoice[ObjectId(invoice_id)].amount_received + SumAmount(PaymentsFound(invoice_id))

TotalReceived(invoice_id) == SumAmount(PaymentsFound(invoice_id))

----------------------------------------------------------------------------
(* The state after start-up: an empty store, no request in flight *)

NoDate == 0
NoResponse == [op |-> "none", code |-> 0]

IdleReq ==
    [pc |-> "idle", invoice_id |-> Malformed, customer_id |-> Malformed,
     amount |-> 0, inv |-> InvalidId, inv_amount |-> 0, inserted_id |-> InvalidId,
     total_received |-> 0, status |-> "Pending", alone |-> TRUE,
     day |-> 0, summary |-> NoResponse]

StartDay == 100

Init ==
    /\ customer = <<>>
    /\ po = <<>>
    /\ invoice = <<>>
    /\ payment = <<>>
    /\ agreement = <<>>
    /\ tasks = <<>>
    /\ outbox = <<>>
    /\ today = StartDay
    /\ req = [w \in Workers |-> IdleReq]
    /\ response = NoResponse
    /\ files = 0

----------------------------------------------------------------------------
(* Customers *)

create_customer ==
    /\ customer' = Append(customer, [urls |-> {}])
    /\ response' = [op |-> "create_customer", code |-> 200, id |-> Str(Len(customer) + 1)]
    /\ UNCHANGED <<po, invoice, payment, agreement, tasks, outbox, today, req, files>>

----------------------------------------------------------------------------
(* Purchase orders *)

create_po(customer_id, amount) ==
    /\ IF RefError(customer, customer_id) # 0
       THEN /\ response' = [op |-> "create_po", code |-> RefError(customer, customer_id)]
            /\ UNCHANGED po
       ELSE /\ po' = Append(po, [customer_id |-> customer_id, amount |-> amount,
                                 urls |-> {}])
            /\ response' = [op |-> "create_po", code |-> 200, id |-> Str(Len(po) + 1)]
    /\ UNCHANGED <<customer, invoice, payment, agreement, tasks, outbox, today, req, files>>

\* list_pos: the invoices found for one PO, db["invoice"].find({"po_id": po_id})
\* with po_id = str(d["_id"])
InvoicesFound(po_id) == SelectSeq(invoice, LAMBDA i : i.po_id = po_id)

BilledAmount(oid) == SumAmount(InvoicesFound(Str(oid)))

PoBalance(oid) == Max(0, po[oid].amount - BilledAmount(oid))

\* list_pos(): every PO, newest first, with billed_amount and po_balance
list_pos_result ==
    Newest([oid \in Indexes(po) |->
              [id |-> Str(oid), amount |-> po[oid].amount,
               billed_amount |-> BilledAmount(oid), po_balance |-> PoBalance(oid)]])

----------------------------------------------------------------------------
(* Invoices *)

\* A variant that verifies the PO and not the customer.
create_invoice_po_only(po_id, customer_id, amount, amount_received, payment_status) ==
    /\ IF RefError(po, po_id) # 0
       THEN /\ response' = [op |-> "create_invoice", code |-> RefError(po, po_id)]
            /\ UNCHANGED invoice
       ELSE /\ invoice' = Append(invoice,
                 [po_id |-> po_id, customer_id |-> customer_id, amount |-> amount,
                  amount_received |-> amount_received,
                  payment_status |-> NormalizedStatus(amount, amount_received),
                  urls |-> {}])
            /\ response' = [op |-> "create_invoice", code |-> 200,
                            id |-> Str(Len(invoice) + 1)]
    /\ UNCHANGED <<customer, po, payment, agreement, tasks, outbox, today, req, files>>

create_invoice(po_id, customer_id, amount, amount_received, payment_status) ==
    /\ IF RefError(po, po_id) # 0
       THEN /\ response' = [op |-> "create_invoice", code |-> RefError(po, po_id)]
            /\ UNCHANGED invoice
       ELSE IF RefError(customer, customer_id) # 0
       THEN /\ response' = [op |-> "create_invoice", code |-> RefError(customer, customer_id)]
            /\ UNCHANGED invoice
       ELSE /\ invoice' = Append(invoice,
                 [po_id |-> po_id, customer_id |-> customer_id, amount |-> amount,
                  amount_received |-> amount_received,
                  payment_status |-> NormalizedStatus(amount, amount_received),
                  urls |-> {}])
            /\ response' = [op |-> "create_invoice", code |-> 200,
                            id |-> Str(Len(invoice) + 1)]
    /\ UNCHANGED <<customer, po, payment, agreement, tasks, outbox, today, req, files>>

\* list_invoices(): every invoice, newest first, with balance_amount and the
\* status recomputed; float() of a field that holds an upload URL raises
\* ValueError, which the handler does not catch (500).
list_invoices_result ==
    IF \E i \in Indexes(invoice) : IsUrl(invoice[i], "amount_received")
    THEN [op |-> "list_invoices", code |-> 500]
    ELSE [op |-> "list_invoices", code |-> 200,
          body |-> Newest([i \in Indexes(invoice) |->
             [id |-> Str(i), amount |-> invoice[i].amount,
              amount_received |-> invoice[i].amount_received,
              balance_amount |->
                  BalanceAmount(invoice[i].amount, invoice[i].amount_received),
              payment_status |->
                  RecomputedStatus(invoice[i].amount, invoice[i].amount_received)]])]

----------------------------------------------------------------------------
(* Payments.  A sync FastAPI handler runs on a thread of the thread pool;   *)
(* each call of the store is one step of the thread.                        *)

InFlight(pcs) == {w \in Workers : req[w].pc \in pcs}

\* History only: req[w].alone says that, from the insert of thread w on, no
\* other create_payment for the same invoice was between its own insert and
\* update or took a step.  Disturbed marks the threads a step of w overlaps.
Disturbed(r, w, oid) ==
    [v \in Workers |->
        IF v # w /\ r[v].pc \in {"aggregate", "update"} /\ r[v].inv = oid
        THEN [r[v] EXCEPT !.alone = FALSE]
        ELSE r[v]]

\* create_payment, "Verify invoice and customer" (both find_one calls)
payment_verify(w, invoice_id, customer_id, amount) ==
    /\ req[w].pc = "idle"
    /\ IF RefError(invoice, invoice_id) # 0
       THEN /\ response' = [op |-> "create_payment", code |-> RefError(invoice, invoice_id)]
            /\ UNCHANGED req
       ELSE IF RefError(customer, customer_id) # 0
       THEN /\ response' = [op |-> "create_payment", code |-> RefError(customer, customer_id)]
            /\ UNCHANGED req
       ELSE /\ req' = [req EXCEPT ![w] =
                 [IdleReq EXCEPT !.pc = "insert", !.invoice_id = invoice_id,
                                 !.customer_id = customer_id, !.amount = amount,
                                 !.inv = ObjectId(invoice_id),
                                 !.inv_amount = invoice[ObjectId(invoice_id)].amount]]
            /\ UNCHANGED response
    /\ UNCHANGED <<customer, po, invoice, payment, agreement, tasks, outbox, today, files>>

\* create_payment: db["payment"].insert_one(data)
payment_insert(w) ==
    /\ req[w].pc = "insert"
    /\ payment' = Append(payment,
          [invoice_id |-> req[w].invoice_id, customer_id |-> req[w].customer_id,
           amount |-> req[w].amount, urls |-> {}])
    /\ req' = [Disturbed(req, w, req[w].inv) EXCEPT
                  ![w].pc = "aggregate", ![w].inserted_id = Len(payment) + 1,
                  ![w].alone = \A v \in Workers \ {w} :
                                   ~(req[v].pc \in {"aggregate", "update"}
                                     /\ req[v].inv = req[w].inv)]
    /\ UNCHANGED <<customer, po, invoice, agreement, tasks, outbox, today, response, files>>

\* create_payment: total_received, amt and status
payment_aggregate(w) ==
    /\ req[w].pc = "aggregate"
    /\ req' = [Disturbed(req, w, req[w].inv) EXCEPT
                  ![w].pc = "update",
                  ![w].total_received = TotalReceived(req[w].invoice_id),
                  ![w].status = PaymentStatus(TotalReceived(req[w].invoice_id),
                                              req[w].inv_amount)]
    /\ UNCHANGED <<customer, po, invoice, payment, agreement, tasks, outbox, today, response, files>>

\* update_one's "$set" of one field: the value replaces whatever the field held
SetField(d, f, v) == [d EXCEPT ![f] = v, !.urls = d.urls \ {f}]

\* create_payment: db["invoice"].update_one(...) and the return
payment_update(w) ==
    /\ req[w].pc = "update"
    /\ invoice' = [invoice EXCEPT ![req[w].inv] =
          SetField(SetField(@, "amount_received", req[w].total_received),
                   "payment_status", req[w].status)]
    /\ response' = [op |-> "create_payment", code |-> 200,
                    id |-> Str(req[w].inserted_id),
                    invoice_amount_received |-> req[w].total_received,
                    invoice_status |-> req[w].status]
    /\ req' = [Disturbed(req, w, req[w].inv) EXCEPT ![w] = IdleReq]
    /\ UNCHANGED <<customer, po, payment, agreement, tasks, outbox, today, files>>

\* list_payments(): every payment, newest first
list_payments_result ==
    [op |-> "list_payments", code |-> 200,
     body |-> Newest([i \in Indexes(payment) |->
                [id |-> Str(i), invoice_id |-> payment[i].invoice_id,
                 amount |-> payment[i].amount]])]

----------------------------------------------------------------------------
(* Agreements and renewals *)

\* timedelta(days=30) in create_agreement, list_agreements and
\* check_and_notify_agreement
RenewalWindowDays == 30

\* date.min.toordinal(): date - timedelta raises OverflowError below it
DateMinOrdinal == 1

\* end_date as the readers take it: a stored string that date.fromisoformat
\* rejects (an upload URL) counts as no end_date
EndDateOf(d) == IF IsUrl(d, "end_date") THEN NoDate ELSE d.end_date

RenewalDue(end_date) == end_date - RenewalWindowDays

\* A variant that counts the end date itself as expired.
RenewalStatus_EndDayExpired(end_date, day) ==
    IF end_date <= day THEN "Expired"
    ELSE IF RenewalDue(end_date) <= day /\ day <= end_date THEN "Due"
    ELSE "Active"

\* the if / elif / else of create_agreement and of list_agreements
RenewalStatus(end_date, day) ==
    IF end_date < day THEN "Expired"
    ELSE IF RenewalDue(end_date) <= day /\ day <= end_date THEN "Due"
    ELSE "Active"

\* A variant whose window opens the day after renewal_due.
InDueWindow_OpensLate(end_date, day) == RenewalDue(end_date) < day /\ day <= end_date

\* check_and_notify_agreement: the condition under which the e-mail is sent
InDueWindow(end_date, day) == RenewalDue(end_date) <= day /\ day <= end_date

create_agreement(customer_id, end_date, renewal_status, renewal_due) ==
    /\ IF RefError(customer, customer_id) # 0
       THEN /\ response' = [op |-> "create_agreement",
                            code |-> RefError(customer, customer_id)]
            /\ UNCHANGED <<agreement, tasks>>
       ELSE IF end_date # NoDate /\ RenewalDue(end_date) < DateMinOrdinal
       THEN \* OverflowError, not caught
            /\ response' = [op |-> "create_agreement", code |-> 500]
            /\ UNCHANGED <<agreement, tasks>>
       ELSE /\ agreement' = Append(agreement,
                 [customer_id |-> customer_id, end_date |-> end_date,
                  renewal_due |-> IF end_date # NoDate THEN RenewalDue(end_date)
                                  ELSE renewal_due,
                  renewal_status |-> IF end_date # NoDate
                                     THEN RenewalStatus(end_date, today)
                                     ELSE renewal_status,
                  urls |-> {}])
            /\ tasks' = Append(tasks, Str(Len(agreement) + 1))
            /\ response' = [op |-> "create_agreement", code |-> 200,
                            id |-> Str(Len(agreement) + 1)]
    /\ UNCHANGED <<customer, po, invoice, payment, outbox, today, req, files>>

\* list_agreements: one document as returned, renewal fields recomputed when
\* it has an end_date and left as stored when it has none
AgreementView(oid) ==
    LET d == agreement[oid]
        e == EndDateOf(d)
    IN  [id |-> Str(oid), end_date |-> e,
         renewal_due |-> IF e # NoDate THEN RenewalDue(e)
                         ELSE IF IsUrl(d, "renewal_due") THEN NoDate
                         ELSE d.renewal_due,
         renewal_status |-> IF e # NoDate THEN RenewalStatus(e, today)
                            ELSE IF IsUrl(d, "renewal_status") THEN "url"
                            ELSE d.renewal_status]

\* due_within_days absent
NoFilter == -1

\* list_agreements(due_within_days): newest first; the filter drops only
\* documents that have an end_date outside [today, today + due_within_days]
list_agreements_result(due_within_days) ==
    [op |-> "list_agreements", code |-> 200,
     body |-> SelectSeq(Newest([oid \in Indexes(agreement) |-> AgreementView(oid)]),
                LAMBDA v : ~(due_within_days # NoFilter /\ v.end_date # NoDate
                             /\ ~(today <= v.end_date
                                  /\ v.end_date <= today + due_within_days)))]

\* check_and_notify_agreement(agreement_id), run as background task k
check_and_notify_agreement(k) ==
    /\ k \in 1 .. Len(tasks)
    /\ tasks' = [i \in 1 .. Len(tasks) - 1 |-> IF i < k THEN tasks[i] ELSE tasks[i + 1]]
    /\ LET oid == ObjectId(tasks[k])
       IN  IF ~Exists(agreement, oid) THEN UNCHANGED outbox
           ELSE IF EndDateOf(agreement[oid]) = NoDate THEN UNCHANGED outbox
           ELSE IF InDueWindow(EndDateOf(agreement[oid]), today)
                THEN outbox' = Append(outbox,
                        [agreement |-> oid, end_date |-> EndDateOf(agreement[oid])])
                ELSE UNCHANGED outbox
    /\ UNCHANGED <<customer, po, invoice, payment, agreement, today, req, response, files>>

\* manual_check_renewals: one task per stored agreement
manual_check_renewals ==
    /\ tasks' = tasks \o [oid \in Indexes(agreement) |-> Str(oid)]
    /\ response' = [op |-> "check_renewals", code |-> 200, checked |-> Len(agreement)]
    /\ UNCHANGED <<customer, po, invoice, payment, agreement, outbox, today, req, files>>

\* The calendar: midnight passes
next_day ==
    /\ today' = today + 1
    /\ UNCHANGED <<customer, po, invoice, payment, agreement, tasks, outbox, req,
                   response, files>>

----------------------------------------------------------------------------
(* Uploads *)

Entities == {"customer", "po", "invoice", "agreement"}

\* update_one's "$set" of field to the upload URL on document oid of col
SetUrl(col, oid, field) ==
    IF Exists(col, oid)
    THEN [col EXCEPT ![oid].urls = @ \cup {field}]
    ELSE col

\* upload_document: the file is saved before entity_id is looked at, and an
\* entity_id that matches no document is no error
upload_document(entity, entity_id, field) ==
    /\ IF entity \notin Entities
       THEN /\ response' = [op |-> "upload_document", code |-> 400]
            /\ UNCHANGED <<customer, po, invoice, agreement, files>>
       ELSE /\ files' = files + 1
            /\ IF ObjectId(entity_id) = InvalidId
               THEN /\ response' = [op |-> "upload_document", code |-> 400]
                    /\ UNCHANGED <<customer, po, invoice, agreement>>
               ELSE /\ response' = [op |-> "upload_document", code |-> 200]
                    /\ customer' = IF entity = "customer"
                                   THEN SetUrl(customer, ObjectId(entity_id), field)
                                   ELSE customer
                    /\ po' = IF entity = "po"
                             THEN SetUrl(po, ObjectId(entity_id), field) ELSE po
                    /\ invoice' = IF entity = "invoice"
                                  THEN SetUrl(invoice, ObjectId(entity_id), field)
                                  ELSE invoice
                    /\ agreement' = IF entity = "agreement"
                                    THEN SetUrl(agreement, ObjectId(entity_id), field)
                                    ELSE agreement
    /\ UNCHANGED <<payment, tasks, outbox, today, req>>

----------------------------------------------------------------------------
(* Dashboard summary *)

\* db["invoice"].count_documents({"payment_status": status}): the stored field
CountStatus(status) ==
    Cardinality({i \in Indexes(invoice) :
        ~IsUrl(invoice[i], "payment_status") /\ invoice[i].payment_status = status})

RECURSIVE SumBalance(_)
SumBalance(docs) ==
    IF docs = <<>> THEN 0
    ELSE BalanceAmount(Head(docs).amount, Head(docs).amount_received)
         + SumBalance(Tail(docs))

\* "Total outstanding = sum(balance of invoices)"
Outstanding == SumBalance(invoice)

\* due_within(days): one scan of the agreement collection, against the
\* value of today the handler read before its first scan
due_within(day, days) ==
    Cardinality({a \in Indexes(agreement) :
        /\ EndDateOf(agreement[a]) # NoDate
        /\ day <= EndDateOf(agreement[a])
        /\ EndDateOf(agreement[a]) <= day + days})

\* the scan as it comes out when today is read in the same instant
DueWithin(days) == due_within(today, days)

\* "POs with remaining balance"
UpcomingInvoicesPos ==
    Cardinality({p \in Indexes(po) : po[p].amount - BilledAmount(p) > 0})

\* dashboard_summary(); round(outstanding, 2) of an integer is the integer
dashboard_summary_result ==
    IF \E i \in Indexes(invoice) : IsUrl(invoice[i], "amount_received")
    THEN [op |-> "dashboard_summary", code |-> 500]
    ELSE [op |-> "dashboard_summary", code |-> 200,
          purchase_orders |-> Len(po), invoices |-> Len(invoice),
          paid_invoices |-> CountStatus("Paid"),
          partial_invoices |-> CountStatus("Partial"),
          pending_invoices |-> CountStatus("Pending"),
          outstanding_amount |-> Outstanding,
          upcoming |-> [d60 |-> DueWithin(60), d30 |-> DueWithin(30), d7 |-> DueWithin(7)],
          upcoming_invoices_pos |-> UpcomingInvoicesPos]

\* dashboard_summary() with other requests in between.  The handler reads
\* today once and then scans the agreement collection three times, for 60,
\* 30 and 7 days in this order; each scan is one step of thread w.  First
\* step: the counts, the outstanding amount, today and due_within(60).
dashboard_begin(w) ==
    /\ req[w].pc = "idle"
    /\ IF dashboard_summary_result.code # 200
       THEN /\ response' = dashboard_summary_result
            /\ UNCHANGED req
       ELSE /\ req' = [req EXCEPT ![w] =
                 [IdleReq EXCEPT !.pc = "scan30", !.day = today,
                                 !.summary = dashboard_summary_result]]
            /\ UNCHANGED response
    /\ UNCHANGED <<customer, po, invoice, payment, agreement, tasks, outbox, today, files>>

\* due_within(30)
dashboard_scan30(w) ==
    /\ req[w].pc = "scan30"
    /\ req' = [req EXCEPT ![w].pc = "scan7",
                          ![w].summary.upcoming.d30 = due_within(req[w].day, 30)]
    /\ UNCHANGED <<customer, po, invoice, payment, agreement, tasks, outbox, today,
                   response, files>>

\* due_within(7), the POs with remaining balance and the return
dashboard_scan7(w) ==
    /\ req[w].pc = "scan7"
    /\ response' = [req[w].summary EXCEPT
                       !.upcoming.d7 = due_within(req[w].day, 7),
                       !.upcoming_invoices_pos = UpcomingInvoicesPos]
    /\ req' = [req EXCEPT ![w] = IdleReq]
    /\ UNCHANGED <<customer, po, invoice, payment, agreement, tasks, outbox, today, files>>

----------------------------------------------------------------------------
(* The read endpoints: each answers from the store and changes nothing *)

Answer(result) ==
    /\ response' = result
    /\ UNCHANGED <<customer, po, invoice, payment, agreement, tasks, outbox, today,
                   req, files>>

list_customers ==
    Answer([op |-> "list_customers", code |-> 200, count |-> Len(customer)])

list_pos == Answer([op |-> "list_pos", code |-> 200, body |-> list_pos_result])

list_invoices == Answer(list_invoices_result)

list_payments == Answer(list_payments_result)

list_agreements(due_within_days) == Answer(list_agreements_result(due_within_days))

\* dashboard_summary() served with no other request in between
dashboard_summary == Answer(dashboard_summary_result)

----------------------------------------------------------------------------
(* What the clients send, and how far each specification lets the store    *)
(* grow.  The handlers above have no limits of their own.                   *)

Cases == {"lower", "upper"}

\* Amounts the clients send (schemas.py: amount >= 0, amount_received >= 0)
InvoiceAmounts == {0, MaxAmount}
ReceivedAmounts == {0, 1}
PaymentAmounts == {0, 1}
PoAmounts == {1, MaxAmount}

\* end dates around the renewal window of the days the model runs through,
\* and one so early that end_date - 30 days is before date.min
EndDates ==
    {NoDate, StartDay - 1, StartDay, StartDay + RenewalWindowDays,
     StartDay + RenewalWindowDays + 1, DateMinOrdinal + RenewalWindowDays - 1}

UploadFields == {"amount_received", "signed_copy_url"}

\* create_payment calls that have inserted or will insert a payment
PaymentsBegun == Len(payment) + Cardinality(InFlight({"insert"}))

\* renewal checks run or scheduled
ChecksBegun == Len(tasks) + Len(outbox)

----------------------------------------------------------------------------
(* Specification of the billing operations: customers, purchase orders,     *)
(* invoices and payments                                                    *)

BillingNext ==
    \/ Len(customer) < MaxCustomers /\ create_customer
    \/ /\ Len(po) < MaxPos
       /\ \E c \in RefStrings(customer, {"lower"}) : create_po(c, MaxAmount)
    \/ /\ Len(invoice) < MaxInvoices
       /\ \E p \in RefStrings(po, {"lower"}), c \in RefStrings(customer, {"lower"}),
             a \in InvoiceAmounts, r \in ReceivedAmounts :
             create_invoice(p, c, a, r, "Paid")
    \/ /\ PaymentsBegun < MaxPayments
       /\ \E w \in Workers, i \in RefStrings(invoice, Cases),
             c \in RefStrings(customer, {"lower"}), a \in PaymentAmounts :
             payment_verify(w, i, c, a)
    \/ \E w \in Workers : payment_insert(w)
    \/ \E w \in Workers : payment_aggregate(w)
    \/ \E w \in Workers : payment_update(w)

BillingSpec == Init /\ [][BillingNext]_vars

----------------------------------------------------------------------------
(* Specification of the agreement operations: customers, agreements, the    *)
(* renewal checks and the calendar                                          *)

AgreementNext ==
    \/ Len(customer) < MaxCustomers /\ create_customer
    \/ /\ Len(agreement) < MaxAgreements
       /\ \E c \in RefStrings(customer, {"lower"}), e \in EndDates,
             s \in {"Active", "Expired"}, d \in {NoDate, StartDay} :
             create_agreement(c, e, s, d)
    \/ \E k \in 1 .. Len(tasks) : check_and_notify_agreement(k)
    \/ ChecksBegun + Len(agreement) <= MaxChecks /\ manual_check_renewals
    \/ today < StartDay + MaxDays /\ next_day

AgreementSpec == Init /\ [][AgreementNext]_vars

----------------------------------------------------------------------------
(* Specification of the purchase-order operations: customers, purchase      *)
(* orders and the invoices raised against them                              *)

PoNext ==
    \/ Len(customer) < MaxCustomers /\ create_customer
    \/ /\ Len(po) < MaxPos
       /\ \E c \in RefStrings(customer, Cases), a \in PoAmounts : create_po(c, a)
    \/ /\ Len(invoice) < MaxInvoices
       /\ \E p \in RefStrings(po, Cases), c \in RefStrings(customer, {"lower"}),
             a \in InvoiceAmounts \cup {1} :
             create_invoice(p, c, a, 0, "Pending")
    \/ list_pos

PoSpec == Init /\ [][PoNext]_vars

----------------------------------------------------------------------------
(* Specification of the renewal views: agreements as created and as an      *)
(* upload changes them, read by list_agreements, by the renewal checks and  *)
(* by the dashboard while other requests are served                         *)

\* end dates inside the 7, the 30 and the 60 day horizon of StartDay
RenewalEndDates ==
    {NoDate, StartDay, StartDay + RenewalWindowDays, StartDay + RenewalWindowDays + 1}

RenewalNext ==
    \/ Len(customer) < MaxCustomers /\ create_customer
    \/ /\ Len(agreement) < MaxAgreements
       /\ \E c \in RefStrings(customer, {"lower"}), e \in RenewalEndDates,
             s \in {"Active", "Due"} :
             create_agreement(c, e, s, NoDate)
    \/ /\ files < MaxUploads
       /\ \E i \in RefStrings(agreement, {"lower"}) :
             upload_document("agreement", i, "end_date")
    \/ list_agreements(NoFilter)
    \/ \E k \in 1 .. Len(tasks) : check_and_notify_agreement(k)
    \/ /\ InFlight({"scan30", "scan7"}) = {}
       /\ \E w \in Workers : dashboard_begin(w)
    \/ \E w \in Workers : dashboard_scan30(w)
    \/ \E w \in Workers : dashboard_scan7(w)
    \/ today < StartDay + MaxDays /\ next_day

RenewalSpec == Init /\ [][RenewalNext]_vars

----------------------------------------------------------------------------
(* The whole API, every collection held to ApiDocs documents *)

Next ==
    \/ Len(customer) < ApiDocs /\ create_customer
    \/ list_customers
    \/ /\ Len(po) < ApiDocs
       /\ \E c \in RefStrings(customer, {"lower"}) : create_po(c, MaxAmount)
    \/ list_pos
    \/ /\ Len(invoice) < ApiDocs
       /\ \E p \in RefStrings(po, {"lower"}), c \in RefStrings(customer, {"lower"}) :
             create_invoice(p, c, MaxAmount, 0, "Pending")
    \/ list_invoices
    \/ /\ PaymentsBegun < ApiDocs
       /\ \E w \in Workers, i \in RefStrings(invoice, {"lower"}),
             c \in RefStrings(customer, {"lower"}) :
             payment_verify(w, i, c, 1)
    \/ \E w \in Workers : payment_insert(w)
    \/ \E w \in Workers : payment_aggregate(w)
    \/ \E w \in Workers : payment_update(w)
    \/ list_payments
    \/ /\ Len(agreement) < ApiDocs
       /\ \E c \in RefStrings(customer, {"lower"}), e \in {NoDate, StartDay} :
             create_agreement(c, e, "Active", NoDate)
    \/ \E d \in {NoFilter, 7} : list_agreements(d)
    \/ \E k \in 1 .. Len(tasks) : check_and_notify_agreement(k)
    \/ ChecksBegun + Len(agreement) <= ApiDocs /\ manual_check_renewals
    \/ /\ files < MaxUploads
       /\ \E e \in Entities \cup {"payment"}, f \in UploadFields,
             i \in RefStrings(invoice, {"lower"}) :
             upload_document(e, i, f)
    \/ dashboard_summary
    \/ today < StartDay + ApiDocs /\ next_day

Spec == Init /\ [][Next]_vars

----------------------------------------------------------------------------
(* Properties *)

\* The payments that reference invoice oid: those whose invoice_id the
\* reference check of create_payment resolved to it
PaymentsOf(oid) == SelectSeq(payment, LAMBDA p : ObjectId(p.invoice_id) = oid)

\* The step of thread w that ends a successful create_payment
IsPaymentUpdate(w) == req[w].pc = "update" /\ req'[w].pc = "idle"

\* C1: every invoice's stored payment_status is the status list_invoices
\* recomputes from its stored amount and amount_received (Pending if
\* amount_received <= 0, Partial if below amount, Paid otherwise), for
\* invoices with amount = 0 too.
C1_StoredStatusIsRecomputed ==
    \A i \in Indexes(invoice) :
        invoice[i].payment_status =
            RecomputedStatus(invoice[i].amount, invoice[i].amount_received)

\* C2: when a create_payment runs its insert, aggregate and update steps with
\* no other create_payment for the same invoice in between, the invoice's
\* amount_received afterwards is the sum of all payments referencing the
\* invoice, and the response carries that stored value.
C2_ReaggregationIsTotal ==
    [][\A w \in Workers :
          (IsPaymentUpdate(w) /\ req[w].alone) =>
              /\ invoice'[req[w].inv].amount_received
                     = SumAmount(PaymentsOf(req[w].inv))
              /\ response'.invoice_amount_received
                     = invoice'[req[w].inv].amount_received]_vars

\* C8: the dashboard's paid / partial / pending counts are the numbers of
\* invoices list_invoices reports with each status, they add up to the
\* invoice count, and outstanding_amount is the sum of the balances.
ListedWithStatus(status) ==
    {k \in 1 .. Len(list_invoices_result.body) :
        list_invoices_result.body[k].payment_status = status}

RECURSIVE SumOver(_, _)
SumOver(f, S) ==
    IF S = {} THEN 0
    ELSE LET x == CHOOSE y \in S : TRUE IN f[x] + SumOver(f, S \ {x})

C8_DashboardMatchesInvoices ==
    LET d == dashboard_summary_result
    IN  /\ d.paid_invoices = Cardinality(ListedWithStatus("Paid"))
        /\ d.partial_invoices = Cardinality(ListedWithStatus("Partial"))
        /\ d.pending_invoices = Cardinality(ListedWithStatus("Pending"))
        /\ d.paid_invoices + d.partial_invoices + d.pending_invoices = d.invoices
        /\ d.outstanding_amount =
               SumOver([i \in Indexes(invoice) |->
                           Max(0, invoice[i].amount - invoice[i].amount_received)],
                       Indexes(invoice))

\* C9: the amount_received stored on an invoice that was created with
\* amount_received = 0 never exceeds the sum of the payments inserted so far
\* for it: a new invoice with amount_received = 0 is within that sum, and an
\* invoice within it stays within it at every step of every interleaving.
C9_NeverAboveInserted ==
    [][\A i \in Indexes(invoice') :
          IF i \in Indexes(invoice)
          THEN invoice[i].amount_received <= SumAmount(PaymentsOf(i))
                   => invoice'[i].amount_received
                          <= SumAmount(SelectSeq(payment',
                                 LAMBDA p : ObjectId(p.invoice_id) = i))
          ELSE invoice'[i].amount_received = 0
                   => SumAmount(SelectSeq(payment',
                          LAMBDA p : ObjectId(p.invoice_id) = i)) >= 0]_vars

\* C9, the race: two create_payment calls for one invoice, both given its id
\* as the API printed it, have both completed, and the invoice holds less
\* than the sum of its payments.
C9_LostUpdate ==
    /\ \A w \in Workers : req[w].pc = "idle"
    /\ \E i \in Indexes(invoice) :
          /\ Len(PaymentsOf(i)) = 2
          /\ \A k \in 1 .. 2 : PaymentsOf(i)[k].invoice_id = Str(i)
          /\ invoice[i].amount_received < SumAmount(PaymentsOf(i))

\* A reference that resolves: well-formed, and a document of col has that id
Resolves(col, s) == ObjectId(s) # InvalidId /\ ObjectId(s) \in 1 .. Len(col)

CreateOps == {"create_po", "create_invoice", "create_agreement", "create_payment"}

Answered(op, code) ==
    response' # response /\ response'.op = op /\ response'.code = code

\* C3: a creation of a PO, invoice, agreement or payment that ends with a
\* client error inserts and updates nothing and schedules no renewal check;
\* a document enters a collection only with all its references resolved, and
\* a creation answers 200 only for such a document.
C3_ReferencesBeforePersistence ==
    [][/\ (\E op \in CreateOps : Answered(op, 400))
             => UNCHANGED <<customer, po, invoice, payment, agreement, tasks>>
       /\ Len(po') > Len(po)
             => /\ Resolves(customer, po'[Len(po')].customer_id)
                /\ response'.op = "create_po" /\ response'.code = 200
       /\ Len(invoice') > Len(invoice)
             => /\ Resolves(po, invoice'[Len(invoice')].po_id)
                /\ Resolves(customer, invoice'[Len(invoice')].customer_id)
                /\ response'.op = "create_invoice" /\ response'.code = 200
       /\ Len(agreement') > Len(agreement)
             => /\ Resolves(customer, agreement'[Len(agreement')].customer_id)
                /\ response'.op = "create_agreement" /\ response'.code = 200
       /\ Len(payment') > Len(payment)
             => /\ Resolves(invoice, payment'[Len(payment')].invoice_id)
                /\ Resolves(customer, payment'[Len(payment')].customer_id)
       /\ Len(tasks') > Len(tasks)
             => \/ response'.op = "create_agreement" /\ response'.code = 200
                \/ response'.op = "check_renewals"
       /\ Answered("create_po", 200) => Len(po') = Len(po) + 1
       /\ Answered("create_invoice", 200) => Len(invoice') = Len(invoice) + 1
       /\ Answered("create_agreement", 200) => Len(agreement') = Len(agreement) + 1
       /\ Answered("create_payment", 200)
             => Resolves(invoice, payment[ObjectId(response'.id)].invoice_id)]_vars

\* C3, the case: an invoice exists, a create_payment has just been refused,
\* and no payment is stored.
C3_Refused ==
    /\ response.op = "create_payment" /\ response.code = 400
    /\ Len(invoice) >= 1
    /\ payment = <<>>
    /\ \A w \in Workers : req[w].pc = "idle"

\* C4: the po_balance list_pos reports for a PO is
\* max(0, amount - sum of the amounts of the invoices raised against it),
\* and is never negative.
InvoicesOf(oid) == SelectSeq(invoice, LAMBDA i : ObjectId(i.po_id) = oid)

Reported(oid) == list_pos_result[Len(po) + 1 - oid]

C4_PoBalanceCountsEveryInvoice ==
    \A p \in Indexes(po) :
        /\ Reported(p).id = Str(p)
        /\ Reported(p).po_balance = Max(0, po[p].amount - SumAmount(InvoicesOf(p)))
        /\ Reported(p).po_balance >= 0

\* C5: for an agreement with an end_date, the renewal fields create_agreement
\* stores and those list_agreements returns are renewal_due = end_date - 30
\* days and a status that is Expired iff today > end_date, Due iff
\* end_date - 30 <= today <= end_date, and Active in the one remaining case,
\* whatever renewal fields the client sent.
RenewalAsClaimed(status, renewal_due, end_date, day) ==
    /\ renewal_due = end_date - 30
    /\ status \in {"Expired", "Due", "Active"}
    /\ status = "Expired" <=> day > end_date
    /\ status = "Due" <=> (end_date - 30 <= day /\ day <= end_date)
    /\ status = "Active" <=> day < end_date - 30

C5_RenewalFields ==
    [][/\ Len(agreement') > Len(agreement)
             => LET d == agreement'[Len(agreement')]
                IN  d.end_date # NoDate
                       => RenewalAsClaimed(d.renewal_status, d.renewal_due,
                                           d.end_date, today)
       /\ \A a \in 1 .. Len(agreement') :
             agreement'[a].end_date # NoDate
                => RenewalAsClaimed(AgreementView(a)'.renewal_status,
                                    AgreementView(a)'.renewal_due,
                                    agreement'[a].end_date, today')]_vars

\* C5, the case: an agreement stored as Active, before its window opened, is
\* listed as Due once the calendar has reached end_date - 30 days.
C5_ActiveThenDue ==
    \E a \in Indexes(agreement) :
        /\ agreement[a].end_date # NoDate
        /\ agreement[a].renewal_status = "Active"
        /\ AgreementView(a).renewal_status = "Due"
        /\ today = agreement[a].end_date - 30

\* C6: an agreement without an end_date has no renewal fields, stored or
\* listed: renewal_status and renewal_due are null.
NullStatus == "null"

C6_NoEndDateNoRenewalFields ==
    \A a \in Indexes(agreement) :
        agreement[a].end_date = NoDate
            => /\ agreement[a].renewal_status = NullStatus
               /\ agreement[a].renewal_due = NoDate
               /\ AgreementView(a).renewal_status = NullStatus
               /\ AgreementView(a).renewal_due = NoDate

\* C7: no step other than the update of a payment creation changes the
\* amount_received of an existing invoice.
AmountReceivedOf(d) == <<IsUrl(d, "amount_received"), d.amount_received>>

C7_OnlyPaymentsChangeAmountReceived ==
    [][(~ \E w \in Workers : IsPaymentUpdate(w))
          => \A i \in Indexes(invoice) :
                AmountReceivedOf(invoice'[i]) = AmountReceivedOf(invoice[i])]_vars

\* C10: a renewal check sends exactly one e-mail, about its agreement, when
\* the agreement exists, has an end_date and end_date - 30 <= today <=
\* end_date, and none otherwise, however many were sent before; it changes
\* no stored record.
Without(q, k) == [i \in 1 .. Len(q) - 1 |-> IF i < k THEN q[i] ELSE q[i + 1]]

C10_OneMailPerDueCheck ==
    [][Len(tasks') < Len(tasks)
          => /\ UNCHANGED <<customer, po, invoice, payment, agreement>>
             /\ \E k \in 1 .. Len(tasks) :
                   LET oid == ObjectId(tasks[k])
                       due == /\ oid \in Indexes(agreement)
                              /\ agreement[oid].end_date # NoDate
                              /\ agreement[oid].end_date - 30 <= today
                              /\ today <= agreement[oid].end_date
                   IN  /\ tasks' = Without(tasks, k)
                       /\ due => /\ Len(outbox') = Len(outbox) + 1
                                 /\ SubSeq(outbox', 1, Len(outbox)) = outbox
                                 /\ outbox'[Len(outbox')].agreement = oid
                       /\ ~due => outbox' = outbox]_vars

\* C10, the case: two checks of one agreement inside its window have sent two
\* e-mails, the first of them on the day the window opened.
C10_SentTwice ==
    \E m, n \in 1 .. Len(outbox) :
        /\ m < n
        /\ outbox[m].agreement = outbox[n].agreement
        /\ \E a \in Indexes(agreement) :
              a = outbox[m].agreement /\ agreement[a].end_date - 30 = StartDay

----------------------------------------------------------------------------
(* C11 *)

\* the agreements list_agreements reports with renewal_status Due
ListedDue ==
    LET body == list_agreements_result(NoFilter).body
    IN  Cardinality({i \in 1 .. Len(body) : body[i].renewal_status = "Due"})

\* the agreements for which check_and_notify_agreement, run now, sends mail
WouldNotify ==
    Cardinality({a \in Indexes(agreement) :
        /\ EndDateOf(agreement[a]) # NoDate
        /\ InDueWindow(EndDateOf(agreement[a]), today)})

\* dashboard_summary answered with its three counts in ascending order
NestedAnswer ==
    (response.op = "dashboard_summary" /\ response.code = 200)
        => /\ response.upcoming.d7 <= response.upcoming.d30
           /\ response.upcoming.d30 <= response.upcoming.d60

\* C11: whatever agreements are stored and whatever day it is, the
\* dashboard's 30-day count, the number of agreements list_agreements
\* reports as Due and the number of agreements a renewal check would send
\* mail for are the same number, and the dashboard's counts are nested:
\* count(7) <= count(30) <= count(60), in the store and in every answer.
C11_RenewalViewsAgree ==
    /\ DueWithin(30) = ListedDue
    /\ ListedDue = WouldNotify
    /\ DueWithin(7) <= DueWithin(30)
    /\ DueWithin(30) <= DueWithin(60)
    /\ NestedAnswer

====
